---- MODULE Spec2Model ----
(***************************************************************************)
(* A model of the cassandra_connector package: CassandraConnectorManager   *)
(* (the keyed registry of connectors) and CassandraConnector (construction,*)
(* secure-connect-bundle resolution, the session accessor).                *)
(*                                                                         *)
(* Python strings are sequences of tokens; a token is a TLA+ string that   *)
(* stands for one or more characters which the code never splits.          *)
(***************************************************************************)
EXTENDS Integers, Sequences, FiniteSets, TLC

(***************************************************************************)
(* Bounds of the model.                                                    *)
(***************************************************************************)
MaxAge == 1
MaxSessions == 4
MaxClusters == 2

(***************************************************************************)
(* Python values: a missing dict key, None, and strings ('' is <<>>).      *)
(***************************************************************************)
Absent == <<"<absent>">>
None == <<"<None>">>
Truthy(v) == v \notin {Absent, None, <<>>}

\* dict.get(key): a missing key reads as None
Get(v) == IF v = Absent THEN None ELSE v

\* `x or y`
Or(x, y) == IF Truthy(x) THEN x ELSE y

(***************************************************************************)
(* String helpers: str.split on a one-token separator, str.join, slices.   *)
(***************************************************************************)
RECURSIVE SplitFrom(_, _, _, _)
SplitFrom(s, sep, i, cur) ==
    IF i > Len(s) THEN <<cur>>
    ELSE IF s[i] = sep THEN <<cur>> \o SplitFrom(s, sep, i + 1, <<>>)
    ELSE SplitFrom(s, sep, i + 1, Append(cur, s[i]))

Split(s, sep) == SplitFrom(s, sep, 1, <<>>)

RECURSIVE Join(_, _)
Join(parts, sep) ==
    IF Len(parts) = 0 THEN <<>>
    ELSE IF Len(parts) = 1 THEN parts[1]
    ELSE parts[1] \o <<sep>> \o Join(Tail(parts), sep)

Min(a, b) == IF a < b THEN a ELSE b

\* parts[:n] and parts[n:]
Take(parts, n) == SubSeq(parts, 1, Min(n, Len(parts)))
Drop(parts, n) == SubSeq(parts, Min(n, Len(parts)) + 1, Len(parts))

\* index of the first occurrence of a token of `toks` in s at or after i, or Len(s)+1
RECURSIVE FindFrom(_, _, _)
FindFrom(s, toks, i) ==
    IF i > Len(s) THEN Len(s) + 1
    ELSE IF s[i] \in toks THEN i
    ELSE FindFrom(s, toks, i + 1)

(***************************************************************************)
(* urlparse(url).netloc: the text between "//" and the next "/", "?" or    *)
(* "#"; empty when the URL has no "//".                                    *)
(***************************************************************************)
Netloc(url) ==
    LET s == FindFrom(url, {"//"}, 1)
    IN  IF s > Len(url) THEN <<>>
        ELSE SubSeq(url, s + 1, FindFrom(url, {"/", "?", "#"}, s + 1) - 1)

AstraSuffix == ".apps.astra.datastax.com"

\* endpoint_parsed.netloc.split('.apps.astra.datastax.com')[0].split('-')
EndpointParts(url) == Split(Split(Netloc(url), AstraSuffix)[1], "-")

DerivedDatacenterID(url) == Join(Take(EndpointParts(url), 5), "-")
DerivedRegionName(url) == Join(Drop(EndpointParts(url), 5), "-")

(***************************************************************************)
(* The cloud-mode ("astra") argument mapping and the bundle cache.         *)
(***************************************************************************)
AstraFields == {"token", "endpoint", "datacenterID", "regionName", "scb"}

\* the astra mapping with no key at all: a missing or empty 'astra' argument
NoAstra == [f \in AstraFields |-> Absent]

\* 360 * 24 * 60 * 60 seconds
StaleSeconds == 360 * 24 * 60 * 60

\* os.path.join(gettempdir(), "cassandra-astra", scb_filename); the directory
\* part is the same for every bundle and is left out of the path
ScbPath(a) ==
    <<"astra-secure-connect-">> \o a.datacenterID
        \o (IF Truthy(a.regionName) THEN <<"-">> \o a.regionName ELSE <<>>)
        \o <<".zip">>

\* mutant: an endpoint, when given, is used before the explicit bundle path
HasExplicitBundleUnlessEndpoint(a) == Truthy(a.scb) /\ ~Truthy(a.endpoint)

\* 'scb' in astra_args and astra_args['scb']
HasExplicitBundle(a) == Truthy(a.scb)

\* 'endpoint' in astra_args and astra_args['endpoint']
HasEndpoint(a) == Truthy(a.endpoint)

\* mutant: the values parsed from the endpoint replace the caller's own
WithEndpointIdsDerivedFirst(a) ==
    [a EXCEPT !.datacenterID = Or(DerivedDatacenterID(a.endpoint), Get(a.datacenterID)),
              !.regionName = Or(DerivedRegionName(a.endpoint), Get(a.regionName))]

\* the update of astra_args in place with the values parsed from the endpoint
WithEndpointIds(a) ==
    [a EXCEPT !.datacenterID = Or(Get(a.datacenterID), DerivedDatacenterID(a.endpoint)),
              !.regionName = Or(Get(a.regionName), DerivedRegionName(a.endpoint))]

\* mutant: a file exactly 360 days old counts as stale
NeedsDownloadAtLimit(fs, path, t) ==
    \/ path \notin DOMAIN fs
    \/ t - fs[path].mtime >= StaleSeconds

\* not os.path.exists(scb_path) or time.time() - os.path.getmtime(scb_path) > 360 days
NeedsDownload(fs, path, t) ==
    \/ path \notin DOMAIN fs
    \/ t - fs[path].mtime > StaleSeconds

\* the body of an HTTP response to GET download_url
Content(url) == <<"bundle:">> \o url

\* what a write that fails part-way leaves behind: open(.., 'wb') has truncated
\* the file and only a strict prefix of the content was written
Partial(content) == SubSeq(content, 1, 1)

WriteFile(fs, path, content, t) ==
    [p \in DOMAIN fs \cup {path} |->
        IF p = path THEN [mtime |-> t, content |-> content] ELSE fs[p]]

\* one HTTP request, as it is logged in a call's record
Request(method, target) == [method |-> method, target |-> target]

\* the first metadata entry whose region is the requested one: next(..., None)
RegionalBundles(data, region) == {i \in 1..Len(data) : data[i].region = region}

FirstOf(S) == CHOOSE i \in S : \A j \in S : i <= j

(***************************************************************************)
(* _get_secure_connect_bundle_url: the metadata POST and the choice of the *)
(* download URL.  net holds the outcomes of the call's network requests.   *)
(***************************************************************************)
UrlResult(url, err, calls) == [url |-> url, err |-> err, calls |-> calls]

\* mutant: when no entry has the region, the first entry is used (what the
\* comment above data[0]['downloadURL'] announces)
GetSecureConnectBundleUrlFallback(a, net) ==
    LET calls == <<Request("POST", a.datacenterID)>>
    IN  IF a.token = Absent THEN UrlResult(<<>>, "KeyError", <<>>)
        ELSE IF net.post # "ok" THEN UrlResult(<<>>, "http", calls)
        ELSE IF Len(net.data) = 0 THEN UrlResult(<<>>, "no urls", calls)
        ELSE IF Truthy(a.regionName) /\ RegionalBundles(net.data, a.regionName) # {}
             THEN UrlResult(net.data[FirstOf(RegionalBundles(net.data, a.regionName))].downloadURL,
                            "", calls)
        ELSE UrlResult(net.data[1].downloadURL, "", calls)

GetSecureConnectBundleUrl(a, net) ==
    LET calls == <<Request("POST", a.datacenterID)>>
    IN  IF a.token = Absent THEN UrlResult(<<>>, "KeyError", <<>>)
        ELSE IF net.post # "ok" THEN UrlResult(<<>>, "http", calls)
        ELSE IF Len(net.data) = 0 THEN UrlResult(<<>>, "no urls", calls)
        ELSE IF Truthy(a.regionName)
             THEN IF RegionalBundles(net.data, a.regionName) # {}
                  THEN UrlResult(net.data[FirstOf(RegionalBundles(net.data, a.regionName))].downloadURL,
                                 "", calls)
                  ELSE UrlResult(<<>>, "region not found", calls)
        ELSE UrlResult(net.data[1].downloadURL, "", calls)

(***************************************************************************)
(* _get_or_download_secure_connect_bundle ("resolve").  The result carries *)
(* the returned path or the error, astra_args as the call leaves it (the   *)
(* mapping is updated in place), the file system and the requests made.    *)
(***************************************************************************)
ResolveResult(path, err, a, fs, dir, calls) ==
    [path |-> path, err |-> err, args |-> a, files |-> fs, dir |-> dir, calls |-> calls]

\* mutant: the cache file is opened for writing before the download is
\* requested, so a request that fails leaves an empty file
FetchBundleOpenFirst(a, path, fs, t, net) ==
    IF ~NeedsDownload(fs, path, t) THEN ResolveResult(path, "", a, fs, TRUE, <<>>)
    ELSE LET u == GetSecureConnectBundleUrl(a, net)
             calls == Append(u.calls, Request("GET", u.url))
         IN  IF u.err # "" THEN ResolveResult(<<>>, u.err, a, fs, TRUE, u.calls)
             ELSE IF net.get # "ok"
                  THEN ResolveResult(<<>>, "http", a, WriteFile(fs, path, <<>>, t), TRUE, calls)
             ELSE IF net.write # "ok"
                  THEN ResolveResult(<<>>, "io", a,
                                     WriteFile(fs, path, Partial(Content(u.url)), t), TRUE, calls)
             ELSE ResolveResult(path, "", a, WriteFile(fs, path, Content(u.url), t), TRUE, calls)

\* lines 201-209, once the cache path is known
FetchBundle(a, path, fs, t, net) ==
    IF ~NeedsDownload(fs, path, t) THEN ResolveResult(path, "", a, fs, TRUE, <<>>)
    ELSE LET u == GetSecureConnectBundleUrl(a, net)
             calls == Append(u.calls, Request("GET", u.url))
         IN  IF u.err # "" THEN ResolveResult(<<>>, u.err, a, fs, TRUE, u.calls)
             ELSE IF net.get # "ok" THEN ResolveResult(<<>>, "http", a, fs, TRUE, calls)
             ELSE IF net.write # "ok"
                  THEN ResolveResult(<<>>, "io", a,
                                     WriteFile(fs, path, Partial(Content(u.url)), t), TRUE, calls)
             ELSE ResolveResult(path, "", a, WriteFile(fs, path, Content(u.url), t), TRUE, calls)

\* mutant: the cache directory is made before the arguments are checked
GetOrDownloadSecureConnectBundleDirFirst(a, fs, dir, t, net) ==
    IF HasExplicitBundle(a) THEN ResolveResult(a.scb, "", a, fs, dir, <<>>)
    ELSE IF HasEndpoint(a)
         THEN FetchBundle(WithEndpointIds(a), ScbPath(WithEndpointIds(a)), fs, t, net)
    ELSE IF ~Truthy(a.datacenterID) THEN ResolveResult(<<>>, "config", a, fs, TRUE, <<>>)
    ELSE FetchBundle(a, ScbPath(a), fs, t, net)

GetOrDownloadSecureConnectBundle(a, fs, dir, t, net) ==
    IF HasExplicitBundle(a) THEN ResolveResult(a.scb, "", a, fs, dir, <<>>)
    ELSE IF HasEndpoint(a)
         THEN FetchBundle(WithEndpointIds(a), ScbPath(WithEndpointIds(a)), fs, t, net)
    ELSE IF ~Truthy(a.datacenterID) THEN ResolveResult(<<>>, "config", a, fs, dir, <<>>)
    ELSE FetchBundle(a, ScbPath(a), fs, t, net)

(***************************************************************************)
(* connection_args of CassandraConnector / get_connector: the 'astra'      *)
(* mapping, or the arguments of a direct connection.                       *)
(***************************************************************************)
ConnectionArgs(astra, authProviderClass, contact_points) ==
    [astra |-> astra, authProviderClass |-> authProviderClass,
     contact_points |-> contact_points]

\* get_connector(db_key) with no keyword arguments: connection_args is {}
NoArgs == ConnectionArgs(NoAstra, Absent, Absent)

PlainTextAuthProvider == <<"cassandra.auth.PlainTextAuthProvider">>

\* the classes __import__ and getattr can load
ImportableAuthProviders == {PlainTextAuthProvider}

(***************************************************************************)
(* CassandraConnector.__init__ with _setup_astra_connection and            *)
(* _setup_cassandra_connection.  The result tells whether a Cluster was    *)
(* created and a session connected, and carries resolve's result.          *)
(***************************************************************************)
NoResolve(fs, dir) == ResolveResult(<<>>, "", NoAstra, fs, dir, <<>>)

Built(err, type, resolved, r, cluster, session) ==
    [err |-> err, type |-> type, resolved |-> resolved, resolve |-> r,
     cluster |-> cluster, session |-> session]

\* _setup_cassandra_connection: import the auth provider, Cluster(...), connect()
SetupCassandraConnection(authProviderClass, type, resolved, r, net) ==
    IF Truthy(authProviderClass) /\ authProviderClass \notin ImportableAuthProviders
        THEN Built("import", type, resolved, r, FALSE, FALSE)
    ELSE IF net.connect # "ok" THEN Built("connect", type, resolved, r, TRUE, FALSE)
    ELSE Built("", type, resolved, r, TRUE, TRUE)

\* _setup_astra_connection
SetupAstraConnection(astra_args, fs, dir, t, net) ==
    LET r == GetOrDownloadSecureConnectBundle(astra_args, fs, dir, t, net)
    IN  IF r.err # "" THEN Built(r.err, "astra", TRUE, r, FALSE, FALSE)
        ELSE IF astra_args.token = Absent THEN Built("KeyError", "astra", TRUE, r, FALSE, FALSE)
        ELSE SetupCassandraConnection(PlainTextAuthProvider, "astra", TRUE, r, net)

\* self._connection_args.get('astra')
IsAstra(args) == args.astra # NoAstra

NewCassandraConnector(args, fs, dir, t, net) ==
    IF IsAstra(args) THEN SetupAstraConnection(args.astra, fs, dir, t, net)
    ELSE SetupCassandraConnection(args.authProviderClass, "cassandra", FALSE,
                                  NoResolve(fs, dir), net)

(***************************************************************************)
(* Inputs: keys, arguments, environments and the outcomes of the network.  *)
(***************************************************************************)
Keys == {"env_astra", "env_cassandra", "app"}

Token == <<"AstraCS:tok">>
DatabaseID == <<"a", "-", "b", "-", "c", "-", "d", "-", "e">>
Endpoint == <<"https:", "//">> \o DatabaseID \o <<"-", "f", AstraSuffix>>
BundleFile == <<"/opt/scb.zip">>

Astra(endpoint, datacenterID, regionName, scb) ==
    [token |-> Token, endpoint |-> endpoint, datacenterID |-> datacenterID,
     regionName |-> regionName, scb |-> scb]

AstraChoices ==
    { Astra(Endpoint, Absent, Absent, BundleFile),
      Astra(Absent, Absent, Absent, BundleFile),
      Astra(Endpoint, Absent, Absent, Absent),
      Astra(Absent, DatabaseID, <<"zz">>, Absent),
      Astra(Absent, DatabaseID, Absent, Absent),
      Astra(Absent, Absent, Absent, Absent) }

\* endpoints of other shapes: a region of several segments, a host of fewer
\* than five segments, and a URL written without its scheme (urlparse finds
\* no netloc in it)
RegionEndpoint == <<"https:", "//">> \o DatabaseID \o <<"-", "us", "-", "east1", AstraSuffix>>
ShortEndpoint == <<"https:", "//", "a", "-", "b", AstraSuffix>>
NoSchemeEndpoint == DatabaseID \o <<"-", "f", AstraSuffix>>

OtherDatabaseID == <<"v", "-", "w", "-", "x", "-", "y", "-", "z">>

\* cloud-mode arguments that exercise resolve's reading of its arguments
IdentityChoices ==
    { Astra(Endpoint, Absent, Absent, Absent),
      Astra(RegionEndpoint, Absent, Absent, Absent),
      Astra(Endpoint, OtherDatabaseID, <<"g">>, Absent),
      Astra(Endpoint, <<>>, None, <<>>),
      Astra(RegionEndpoint, Absent, <<"f">>, Absent),
      Astra(ShortEndpoint, Absent, Absent, Absent),
      Astra(NoSchemeEndpoint, Absent, Absent, Absent),
      Astra(Absent, <<>>, <<"f">>, <<>>),
      Astra(None, None, None, None),
      Astra(Absent, Absent, Absent, Absent) }

DirectChoices ==
    { ConnectionArgs(NoAstra, PlainTextAuthProvider, <<"127.0.0.1">>),
      ConnectionArgs(NoAstra, <<"nomodule.NoProvider">>, <<"127.0.0.1">>) }

\* the arguments get_connector is called with
ManagerArgChoices ==
    { NoArgs,
      ConnectionArgs(NoAstra, PlainTextAuthProvider, <<"127.0.0.1">>),
      ConnectionArgs(Astra(Endpoint, Absent, Absent, Absent), Absent, Absent),
      ConnectionArgs(Astra(Absent, Absent, Absent, Absent), Absent, Absent) }

DownloadURL(region) == <<"https://bundles/">> \o region

Bundle(region) == [region |-> region, downloadURL |-> DownloadURL(region)]

Net(post, data, get, write, connect) ==
    [post |-> post, data |-> data, get |-> get, write |-> write, connect |-> connect]

AllBundles == <<Bundle(<<"g">>), Bundle(<<"f">>)>>

\* the outcomes of one call's requests: all succeed, or one of them fails
NetChoices ==
    { Net("ok", AllBundles, "ok", "ok", "ok"),
      Net("fail", AllBundles, "ok", "ok", "ok"),
      Net("ok", <<>>, "ok", "ok", "ok"),
      Net("ok", AllBundles, "fail", "ok", "ok"),
      Net("ok", AllBundles, "ok", "fail", "ok"),
      Net("ok", AllBundles, "ok", "ok", "fail") }

\* the outcomes of the requests of one get_connector call
ManagerNetChoices ==
    { Net("ok", AllBundles, "ok", "ok", "ok"),
      Net("fail", AllBundles, "ok", "ok", "ok"),
      Net("ok", AllBundles, "ok", "ok", "fail") }

(***************************************************************************)
(* The environment read by CassandraConnectorManager.__init__.             *)
(***************************************************************************)
\* _parse_connection_args_json(os.getenv("CASSANDRA_CONNECTION"))
ParseConnectionArgsJson(conn_args_str) ==
    IF conn_args_str = <<"{\"contact_points\": [\"127.0.0.1\"]}">>
        THEN ConnectionArgs(NoAstra, Absent, <<"127.0.0.1">>)
    ELSE NoArgs

\* os.getenv of a variable that is not set is None
EnvChoices ==
    [CASSANDRA_CONNECTION : {None, <<"{\"contact_points\": [\"127.0.0.1\"]}">>},
     ASTRA_DB_APPLICATION_TOKEN : {None, Token},
     ASTRA_DB_API_ENDPOINT : {None, Endpoint},
     ASTRA_DB_DATABASE_ID : {None},
     ASTRA_DB_REGION : {None},
     ASTRA_DB_SECURE_BUNDLE_PATH : {None}]

\* a dict as a function: the keys present are its domain
Put(d, k, v) == [x \in DOMAIN d \cup {k} |-> IF x = k THEN v ELSE d[x]]

EmptyDict == [x \in {} |-> NoArgs]

ManagerInit(env) ==
    LET c == IF Truthy(env.CASSANDRA_CONNECTION)
                THEN Put(EmptyDict, "env_cassandra",
                         ParseConnectionArgsJson(env.CASSANDRA_CONNECTION))
                ELSE EmptyDict
    IN  IF Truthy(env.ASTRA_DB_APPLICATION_TOKEN)
            THEN Put(c, "env_astra",
                     ConnectionArgs([token |-> env.ASTRA_DB_APPLICATION_TOKEN,
                                     endpoint |-> env.ASTRA_DB_API_ENDPOINT,
                                     datacenterID |-> env.ASTRA_DB_DATABASE_ID,
                                     regionName |-> env.ASTRA_DB_REGION,
                                     scb |-> env.ASTRA_DB_SECURE_BUNDLE_PATH],
                                    Absent, Absent))
            ELSE c

(***************************************************************************)
(* State.                                                                  *)
(*   connection_params, connections  the two dicts of the manager          *)
(*   connectors   the CassandraConnector objects constructed, by identity  *)
(*   sessions     the Session objects opened, by identity                  *)
(*   clusters     the number of Cluster objects created                    *)
(*   files        the bundle cache directory: path -> mtime and content    *)
(*   scb_dir      whether the cache directory exists                       *)
(*   now          time.time()                                              *)
(*   failed       the keys whose construction has failed (history)         *)
(*   ret          the record of the last call: inputs, result, effects     *)
(*   threads      the threads inside get_connector: position and locals    *)
(*   stream       the run of stream_data: position and locals              *)
(***************************************************************************)
VARIABLES connection_params, connections, connectors, sessions, clusters,
          files, scb_dir, now, failed, ret, threads, stream

vars == <<connection_params, connections, connectors, sessions, clusters,
          files, scb_dir, now, failed, ret, threads, stream>>

\* no request was made
NoNet == Net("", <<>>, "", "", "")

NoBuild == Built("", "", FALSE, NoResolve(files, scb_dir), FALSE, FALSE)

\* the record of a call that may construct a connector: get_connector, or
\* CassandraConnector(args) itself
\*   result, error       what the call returned or raised
\*   cause               the error raised inside the constructor
\*   constructed         CassandraConnector(..) was invoked, with built_from
\*   resolved            resolve was invoked; it returned path or raised resolve_err,
\*                       made the requests in calls and left its argument as astra_after
\*   net, files_before   the outcomes of the requests, the cache before the call
\*   opened, closed      the sessions connected and shut down
BuildRet(op, key, args, result, error, constructed, built_from, b, net, opened) ==
    [op |-> op, key |-> key, args |-> args, handle |-> 0,
     new |-> FALSE, replace |-> FALSE, result |-> result, error |-> error,
     cause |-> b.err, constructed |-> constructed, built_from |-> built_from,
     resolved |-> b.resolved, astra_after |-> b.resolve.args,
     path |-> b.resolve.path, resolve_err |-> b.resolve.err, calls |-> b.resolve.calls,
     net |-> net, files_before |-> files,
     opened |-> opened, closed |-> {}]

ManagerRet(key, args, result, error, constructed, built_from, b, net, opened) ==
    BuildRet("get_connector", key, args, result, error, constructed, built_from, b, net, opened)

\* the record of a call on a connector
ConnectorRet(op, h, new, replace, result, error, opened, closed) ==
    [op |-> op, key |-> "", args |-> NoArgs, handle |-> h,
     new |-> new, replace |-> replace, result |-> result, error |-> error,
     cause |-> error, constructed |-> FALSE, built_from |-> NoArgs,
     resolved |-> FALSE, astra_after |-> NoAstra,
     path |-> <<>>, resolve_err |-> "", calls |-> <<>>,
     net |-> NoNet, files_before |-> EmptyDict,
     opened |-> opened, closed |-> closed]

NoRet == ConnectorRet("", 0, FALSE, FALSE, 0, "", {}, {})

\* the threads that call get_connector on one manager
Threads == {"t1", "t2"}

\* a thread's position in get_connector and its locals: db_key,
\* connection_args, the connector it constructed, what it returned or raised
Thread(pc, key, args, h, result, error) ==
    [pc |-> pc, key |-> key, args |-> args, h |-> h, result |-> result, error |-> error]

NoThreads == [t \in Threads |-> Thread("idle", "", NoArgs, 0, 0, "")]

\* the run of stream_data: its position, curr_time, and what has happened:
\* a message was sent, an iteration's error was logged (line 57), the outer
\* handler logged an error (line 61), an exception left stream_data, and
\* whether the last statement run raised
Stream(pc, curr_time, sent, caught, failed_outer, raised, last) ==
    [pc |-> pc, curr_time |-> curr_time, sent |-> sent, caught |-> caught,
     failed_outer |-> failed_outer, raised |-> raised, last |-> last]

NoStream == Stream("", 0, FALSE, FALSE, FALSE, FALSE, "")

\* a bundle downloaded by an earlier process at time 0
OldFiles ==
    WriteFile(EmptyDict, ScbPath(Astra(Absent, DatabaseID, <<"f">>, Absent)),
              Content(DownloadURL(<<"f">>)), 0)

\* time.time() while the process runs: the old bundle is StaleSeconds old or
\* up to MaxAge seconds older (a run is short against 360 days, and the clock
\* is read as one value throughout)
StartTimes == StaleSeconds..(StaleSeconds + MaxAge)

Init ==
    /\ \E env \in EnvChoices : connection_params = ManagerInit(env)
    /\ connections = EmptyDict
    /\ connectors = <<>>
    /\ sessions = <<>>
    /\ clusters = 0
    /\ files = EmptyDict
    /\ scb_dir = FALSE
    /\ now = StaleSeconds
    /\ failed = {}
    /\ ret = NoRet
    /\ threads = NoThreads
    /\ stream = NoStream

(***************************************************************************)
(* CassandraConnectorManager.get_connector                                 *)
(***************************************************************************)
\* mutant: the early return for a cached key is gone
IsCachedNever(conns, k) == FALSE

\* db_key in self._connections
IsCached(conns, k) == k \in DOMAIN conns

\* mutant: the test of connection_args is gone, an empty mapping is stored too
StoreArgsAlways(params, k, args) ==
    IF k \notin DOMAIN params THEN Put(params, k, args) ELSE params

\* mutant: the arguments of a call are stored only for the environment's keys
StoreArgsEnvOnly(params, k, args) ==
    IF k \notin DOMAIN params /\ args # NoArgs /\ k \in {"env_astra", "env_cassandra"}
        THEN Put(params, k, args)
        ELSE params

\* if db_key not in self._connection_params and connection_args: store them
StoreArgs(params, k, args) ==
    IF k \notin DOMAIN params /\ args # NoArgs THEN Put(params, k, args) ELSE params

\* mutant: a failed construction is cached too, as a connector that is none
CacheConnectorAlways(conns, k, h, err) == Put(conns, k, IF err = "" THEN h ELSE 0)

\* mutant: the assignment keeps the connector a key already has (setdefault)
CacheConnectorOnce(conns, k, h, err) ==
    IF err = "" /\ k \notin DOMAIN conns THEN Put(conns, k, h) ELSE conns

\* mutant: a key is given the connector another key already has, when there is one
CacheConnectorShared(conns, k, h, err) ==
    IF err # "" THEN conns
    ELSE IF DOMAIN conns = {} THEN Put(conns, k, h)
    ELSE Put(conns, k, conns[CHOOSE x \in DOMAIN conns : TRUE])

\* self._connections[db_key] = CassandraConnector(params), unless it raised
CacheConnector(conns, k, h, err) == IF err = "" THEN Put(conns, k, h) ELSE conns

\* the stored params after the constructor ran: the nested 'astra' mapping is the
\* object resolve updates in place; the top-level mapping is copied by the call
AfterBuild(params, k, b) ==
    IF b.resolved THEN [params EXCEPT ![k].astra = b.resolve.args] ELSE params

GetConnector(k, args, net) ==
    IF IsCached(connections, k)
    THEN /\ ret' = ManagerRet(k, args, connections[k], "", FALSE, NoArgs, NoBuild, NoNet, {})
         /\ UNCHANGED <<connection_params, connections, connectors, sessions, clusters,
                        files, scb_dir, now, failed, threads, stream>>
    ELSE \E params \in {StoreArgs(connection_params, k, args)} :
             IF k \in DOMAIN params
             THEN \E b \in {NewCassandraConnector(params[k], files, scb_dir, now, net)} :
                  LET h == Len(connectors) + 1
                      c == clusters + 1
                      s == Len(sessions) + 1
                  IN  /\ b.cluster => clusters < MaxClusters
                      /\ b.session => Len(sessions) < MaxSessions
                      /\ connection_params' = AfterBuild(params, k, b)
                      /\ files' = b.resolve.files
                      /\ scb_dir' = b.resolve.dir
                      /\ clusters' = IF b.cluster THEN c ELSE clusters
                      /\ sessions' = IF b.session
                                        THEN Append(sessions, [cluster |-> c, open |-> TRUE])
                                        ELSE sessions
                      /\ connectors' = IF b.err = ""
                                          THEN Append(connectors,
                                                      [cluster |-> c, session |-> s, type |-> b.type])
                                          ELSE connectors
                      /\ connections' = CacheConnector(connections, k, h, b.err)
                      /\ failed' = IF b.err = "" THEN failed ELSE failed \cup {k}
                      /\ ret' = ManagerRet(k, args, IF b.err = "" THEN h ELSE 0,
                                           IF b.err = "" THEN "" ELSE "could not be initialized",
                                           TRUE, params[k], b, net,
                                           IF b.session THEN {s} ELSE {})
                      /\ UNCHANGED <<now, threads, stream>>
             ELSE /\ ret' = ManagerRet(k, args, 0, "not configured", FALSE, NoArgs, NoBuild, NoNet, {})
                  /\ UNCHANGED <<connection_params, connections, connectors, sessions,
                                 clusters, files, scb_dir, now, failed, threads, stream>>

(***************************************************************************)
(* CassandraConnector.session                                              *)
(***************************************************************************)
SessionResult(c, ss, result, err, opened, closed) ==
    [connector |-> c, sessions |-> ss, result |-> result, err |-> err,
     opened |-> opened, closed |-> closed]

\* self._cluster.connect(): the new Session object, when the connect succeeds
Connect(c, ss) == Append(ss, [cluster |-> c.cluster, open |-> TRUE])

\* self._session.shutdown()
Shutdown(c, ss) == [ss EXCEPT ![c.session].open = FALSE]

\* the body of the accessor (lines 100-106) on connector c with the given flags
SessionBody(c, ss, new, replace, connect) ==
    IF replace
    THEN IF connect # "ok"
         THEN SessionResult(c, Shutdown(c, ss), 0, "connect", {}, {c.session})
         ELSE SessionResult([c EXCEPT !.session = Len(ss) + 1], Connect(c, Shutdown(c, ss)),
                            Len(ss) + 1, "", {Len(ss) + 1}, {c.session})
    ELSE IF new
    THEN IF connect # "ok"
         THEN SessionResult(c, ss, 0, "connect", {}, {})
         ELSE SessionResult(c, Connect(c, ss), Len(ss) + 1, "", {Len(ss) + 1}, {})
    ELSE SessionResult(c, ss, c.session, "", {}, {})

\* connector.session: the property is read; the getter runs with its defaults
SessionGet(h) ==
    /\ h \in 1..Len(connectors)
    /\ \E r \in {SessionBody(connectors[h], sessions, FALSE, FALSE, "ok")} :
           ret' = ConnectorRet("session", h, FALSE, FALSE, r.result, r.err, r.opened, r.closed)
    /\ UNCHANGED <<connection_params, connections, connectors, sessions, clusters,
                   files, scb_dir, now, failed, threads, stream>>

\* connector.session(new=.., replace=..): session is a property, so the getter
\* runs with its defaults and the Session it returns is then called with the
\* arguments; a Session is not callable and the call raises TypeError
SessionCall(h, new, replace) ==
    /\ h \in 1..Len(connectors)
    /\ \E r \in {SessionBody(connectors[h], sessions, FALSE, FALSE, "ok")} :
           ret' = ConnectorRet("session()", h, new, replace, 0, "TypeError", r.opened, r.closed)
    /\ UNCHANGED <<connection_params, connections, connectors, sessions, clusters,
                   files, scb_dir, now, failed, threads, stream>>

\* the accessor function itself applied to the connector and the flags
\* (type(connector).session.fget(connector, new, replace))
SessionFget(h, new, replace, connect) ==
    /\ h \in 1..Len(connectors)
    /\ \E r \in {SessionBody(connectors[h], sessions, new, replace, connect)} :
           /\ Len(r.sessions) <= MaxSessions
           /\ connectors' = [connectors EXCEPT ![h] = r.connector]
           /\ sessions' = r.sessions
           /\ ret' = ConnectorRet("session.fget", h, new, replace, r.result, r.err,
                                  r.opened, r.closed)
    /\ UNCHANGED <<connection_params, connections, clusters, files, scb_dir, now, failed, threads, stream>>

(***************************************************************************)
(* CassandraConnector(args), constructed by the caller itself.           *)
(***************************************************************************)
NewConnector(args, net) ==
    \E b \in {NewCassandraConnector(args, files, scb_dir, now, net)} :
    LET h == Len(connectors) + 1
        c == clusters + 1
        s == Len(sessions) + 1
    IN  /\ b.cluster => clusters < MaxClusters
        /\ b.session => Len(sessions) < MaxSessions
        /\ files' = b.resolve.files
        /\ scb_dir' = b.resolve.dir
        /\ clusters' = IF b.cluster THEN c ELSE clusters
        /\ sessions' = IF b.session
                          THEN Append(sessions, [cluster |-> c, open |-> TRUE])
                          ELSE sessions
        /\ connectors' = IF b.err = ""
                            THEN Append(connectors,
                                        [cluster |-> c, session |-> s, type |-> b.type])
                            ELSE connectors
        /\ ret' = BuildRet("CassandraConnector", "", args, IF b.err = "" THEN h ELSE 0,
                           b.err, TRUE, args, b, net, IF b.session THEN {s} ELSE {})
        /\ UNCHANGED <<connection_params, connections, now, failed, threads, stream>>

(***************************************************************************)
(* Spec: a manager and its sequential callers.                             *)
(***************************************************************************)
Next ==
    \E k \in Keys, args \in ManagerArgChoices, net \in ManagerNetChoices :
        GetConnector(k, args, net)

Spec == Init /\ [][Next]_vars

(***************************************************************************)
(* SpecBundle: cloud-mode connectors constructed directly; every           *)
(* construction resolves its secure connect bundle.                        *)
(***************************************************************************)
InitBundle ==
    /\ connection_params = EmptyDict
    /\ connections = EmptyDict
    /\ connectors = <<>>
    /\ sessions = <<>>
    /\ clusters = 0
    /\ files \in {EmptyDict, OldFiles}
    /\ scb_dir = (files # EmptyDict)
    /\ now \in StartTimes
    /\ failed = {}
    /\ ret = NoRet
    /\ threads = NoThreads
    /\ stream = NoStream

NextBundle ==
    \E a \in AstraChoices, net \in NetChoices : NewConnector(ConnectionArgs(a, Absent, Absent), net)

SpecBundle == InitBundle /\ [][NextBundle]_vars

(***************************************************************************)
(* SpecIdentity: cloud-mode connectors constructed from arguments of every *)
(* shape resolve tells apart (endpoint, explicit ids, neither).            *)
(***************************************************************************)
\* the cache is empty and its directory does not exist yet
InitIdentity ==
    /\ connection_params = EmptyDict
    /\ connections = EmptyDict
    /\ connectors = <<>>
    /\ sessions = <<>>
    /\ clusters = 0
    /\ files = EmptyDict
    /\ scb_dir = FALSE
    /\ now = StaleSeconds
    /\ failed = {}
    /\ ret = NoRet
    /\ threads = NoThreads
    /\ stream = NoStream

\* the outcomes of one construction's requests: all succeed, the metadata
\* request fails, or the write of the bundle fails
IdentityNetChoices ==
    { Net("ok", AllBundles, "ok", "ok", "ok"),
      Net("fail", AllBundles, "ok", "ok", "ok"),
      Net("ok", AllBundles, "ok", "fail", "ok") }

NextIdentity ==
    \E a \in IdentityChoices, net \in IdentityNetChoices :
        NewConnector(ConnectionArgs(a, Absent, Absent), net)

SpecIdentity == InitIdentity /\ [][NextIdentity]_vars

(***************************************************************************)
(* SpecSession: direct-mode connectors and their session accessor.         *)
(***************************************************************************)
InitSession ==
    /\ connection_params = EmptyDict
    /\ connections = EmptyDict
    /\ connectors = <<>>
    /\ sessions = <<>>
    /\ clusters = 0
    /\ files = EmptyDict
    /\ scb_dir = FALSE
    /\ now = StaleSeconds
    /\ failed = {}
    /\ ret = NoRet
    /\ threads = NoThreads
    /\ stream = NoStream

NextSession ==
    \/ \E args \in DirectChoices, net \in NetChoices : NewConnector(args, net)
    \/ \E h \in 1..MaxClusters : SessionGet(h)
    \/ \E h \in 1..MaxClusters, new \in BOOLEAN, replace \in BOOLEAN : SessionCall(h, new, replace)
    \/ \E h \in 1..MaxClusters, new \in BOOLEAN, replace \in BOOLEAN, connect \in {"ok", "fail"} :
          SessionFget(h, new, replace, connect)

SpecSession == InitSession /\ [][NextSession]_vars

(***************************************************************************)
(* SpecThreads: threads that call get_connector on one manager with no     *)
(* lock.  A step is one statement of get_connector run by one thread; the  *)
(* construction CassandraConnector(params) is one step.                    *)
(***************************************************************************)
\* the arguments the threads call get_connector with
ThreadArgChoices ==
    { NoArgs, ConnectionArgs(NoAstra, PlainTextAuthProvider, <<"127.0.0.1">>) }

\* a thread enters get_connector(db_key, connection_args)
ThreadCall(t, k, args) ==
    /\ threads[t].pc \in {"idle", "done"}
    /\ threads' = [threads EXCEPT ![t] = Thread("check", k, args, 0, 0, "")]
    /\ UNCHANGED <<connection_params, connections, connectors, sessions, clusters,
                   files, scb_dir, now, failed, ret, stream>>

\* lines 66-67: the cache check and the early return
ThreadCheck(t) ==
    LET th == threads[t]
    IN  /\ th.pc = "check"
        /\ threads' = [threads EXCEPT ![t] =
                IF IsCached(connections, th.key)
                THEN [th EXCEPT !.pc = "done", !.result = connections[th.key]]
                ELSE [th EXCEPT !.pc = "store"]]
        /\ UNCHANGED <<connection_params, connections, connectors, sessions, clusters,
                       files, scb_dir, now, failed, ret, stream>>

\* lines 69-72 and 84: the arguments are stored on first use; without params
\* the call raises
ThreadStore(t) ==
    LET th == threads[t]
    IN  /\ th.pc = "store"
        /\ \E params \in {StoreArgs(connection_params, th.key, th.args)} :
               /\ connection_params' = params
               /\ threads' = [threads EXCEPT ![t] =
                       IF th.key \in DOMAIN params
                       THEN [th EXCEPT !.pc = "construct"]
                       ELSE [th EXCEPT !.pc = "done", !.error = "not configured"]]
        /\ UNCHANGED <<connections, connectors, sessions, clusters,
                       files, scb_dir, now, failed, ret, stream>>

\* lines 74-75, the right-hand side: CassandraConnector(params) is evaluated,
\* and lines 77-80 when it raises
ThreadConstruct(t, net) ==
    LET th == threads[t]
        h == Len(connectors) + 1
        c == clusters + 1
        s == Len(sessions) + 1
    IN  /\ th.pc = "construct"
        /\ \E b \in {NewCassandraConnector(connection_params[th.key], files, scb_dir, now, net)} :
               /\ b.cluster => clusters < MaxClusters
               /\ b.session => Len(sessions) < MaxSessions
               /\ connection_params' = AfterBuild(connection_params, th.key, b)
               /\ files' = b.resolve.files
               /\ scb_dir' = b.resolve.dir
               /\ clusters' = IF b.cluster THEN c ELSE clusters
               /\ sessions' = IF b.session
                                 THEN Append(sessions, [cluster |-> c, open |-> TRUE])
                                 ELSE sessions
               /\ connectors' = IF b.err = ""
                                   THEN Append(connectors,
                                               [cluster |-> c, session |-> s, type |-> b.type])
                                   ELSE connectors
               /\ failed' = IF b.err = "" THEN failed ELSE failed \cup {th.key}
               /\ threads' = [threads EXCEPT ![t] =
                       IF b.err = ""
                       THEN [th EXCEPT !.pc = "assign", !.h = h]
                       ELSE [th EXCEPT !.pc = "done", !.error = "could not be initialized"]]
        /\ UNCHANGED <<connections, now, ret, stream>>

\* line 75, the assignment: self._connections[db_key] = the connector
ThreadAssign(t) ==
    LET th == threads[t]
    IN  /\ th.pc = "assign"
        /\ connections' = CacheConnector(connections, th.key, th.h, "")
        /\ threads' = [threads EXCEPT ![t] = [th EXCEPT !.pc = "return"]]
        /\ UNCHANGED <<connection_params, connectors, sessions, clusters,
                       files, scb_dir, now, failed, ret, stream>>

\* line 81: return self._connections[db_key]
ThreadReturn(t) ==
    LET th == threads[t]
    IN  /\ th.pc = "return"
        /\ threads' = [threads EXCEPT ![t] =
                [th EXCEPT !.pc = "done", !.result = connections[th.key]]]
        /\ UNCHANGED <<connection_params, connections, connectors, sessions, clusters,
                       files, scb_dir, now, failed, ret, stream>>

NextThreads ==
    \/ \E t \in Threads, k \in Keys, args \in ThreadArgChoices : ThreadCall(t, k, args)
    \/ \E t \in Threads : ThreadCheck(t)
    \/ \E t \in Threads : ThreadStore(t)
    \/ \E t \in Threads, net \in ManagerNetChoices : ThreadConstruct(t, net)
    \/ \E t \in Threads : ThreadAssign(t)
    \/ \E t \in Threads : ThreadReturn(t)

SpecThreads == Init /\ [][NextThreads]_vars

(***************************************************************************)
(* SpecStream: one run of stream_data (kafka_streams.py).  now is the wall *)
(* clock in seconds; a step is one statement of stream_data, or a tick of  *)
(* the clock.                                                              *)
(***************************************************************************)
\* the latest second at which curr_time may be read
MaxStart == 1

\* curr_time + 60: the loop streams for one minute
StreamSeconds == 60

\* the outcomes of a statement that may raise
Outcomes == {"ok", "error"}

\* mutant: the loop body has no handler of its own; the error reaches the
\* handler of lines 60-61 and the loop is over
OnIterationErrorEscapes(s) ==
    [s EXCEPT !.pc = "done", !.failed_outer = TRUE, !.last = "error"]

\* lines 56-58: except Exception: logger.error(..); continue
OnIterationError(s) == [s EXCEPT !.pc = "loop", !.caught = TRUE, !.last = "error"]

\* lines 60-61: except Exception: logger.error(..); stream_data returns
OnOuterError(s) == [s EXCEPT !.pc = "done", !.failed_outer = TRUE, !.last = "error"]

\* time.time() > curr_time + 60
PastDeadline(s, t) == t > s.curr_time + StreamSeconds

InitStream ==
    /\ connection_params = EmptyDict
    /\ connections = EmptyDict
    /\ connectors = <<>>
    /\ sessions = <<>>
    /\ clusters = 0
    /\ files = EmptyDict
    /\ scb_dir = FALSE
    /\ now \in 0..MaxStart
    /\ failed = {}
    /\ ret = NoRet
    /\ threads = NoThreads
    /\ stream = Stream("producer", 0, FALSE, FALSE, FALSE, FALSE, "")

\* lines 44-46: the producer is created and the start time read
CreateProducer(outcome) ==
    /\ stream.pc = "producer"
    /\ stream' = IF outcome = "ok"
                    THEN [stream EXCEPT !.pc = "loop", !.curr_time = now, !.last = "ok"]
                    ELSE OnOuterError(stream)
    /\ UNCHANGED <<connection_params, connections, connectors, sessions, clusters,
                   files, scb_dir, now, failed, ret, threads>>

\* lines 48-50: the test at the top of the loop
LoopCheck ==
    /\ stream.pc = "loop"
    /\ stream' = IF PastDeadline(stream, now)
                    THEN [stream EXCEPT !.pc = "done", !.last = "ok"]
                    ELSE [stream EXCEPT !.pc = "fetch", !.last = "ok"]
    /\ UNCHANGED <<connection_params, connections, connectors, sessions, clusters,
                   files, scb_dir, now, failed, ret, threads>>

\* line 52: res = get_data()
Fetch(outcome) ==
    /\ stream.pc = "fetch"
    /\ stream' = IF outcome = "ok" THEN [stream EXCEPT !.pc = "format", !.last = "ok"]
                    ELSE OnIterationError(stream)
    /\ UNCHANGED <<connection_params, connections, connectors, sessions, clusters,
                   files, scb_dir, now, failed, ret, threads>>

\* line 53: formatted_data = format_data(res)
Format(outcome) ==
    /\ stream.pc = "format"
    /\ stream' = IF outcome = "ok" THEN [stream EXCEPT !.pc = "send", !.last = "ok"]
                    ELSE OnIterationError(stream)
    /\ UNCHANGED <<connection_params, connections, connectors, sessions, clusters,
                   files, scb_dir, now, failed, ret, threads>>

\* lines 54-55: producer.send('users_created', ..)
Send(outcome) ==
    /\ stream.pc = "send"
    /\ stream' = IF outcome = "ok"
                    THEN [stream EXCEPT !.pc = "loop", !.sent = TRUE, !.last = "ok"]
                    ELSE OnIterationError(stream)
    /\ UNCHANGED <<connection_params, connections, connectors, sessions, clusters,
                   files, scb_dir, now, failed, ret, threads>>

\* a second passes on the wall clock while the loop runs; the clock is
\* followed until it is past the deadline, after which its value decides
\* nothing any more
Tick ==
    /\ stream.pc \in {"loop", "fetch", "format", "send"}
    /\ ~PastDeadline(stream, now)
    /\ now' = now + 1
    /\ UNCHANGED <<connection_params, connections, connectors, sessions, clusters,
                   files, scb_dir, failed, ret, threads, stream>>

\* the statements of stream_data
StreamStep ==
    \/ \E outcome \in Outcomes : CreateProducer(outcome)
    \/ LoopCheck
    \/ \E outcome \in Outcomes : Fetch(outcome)
    \/ \E outcome \in Outcomes : Format(outcome)
    \/ \E outcome \in Outcomes : Send(outcome)

NextStream == StreamStep \/ Tick

\* the clock advances, and every statement of stream_data returns or raises
SpecStream == InitStream /\ [][NextStream]_vars /\ WF_vars(Tick) /\ WF_vars(StreamStep)

(***************************************************************************)
(* Properties of get_connector, checked under Spec.  A step of Spec is one *)
(* call; ret' is its record, the unprimed variables are the state before   *)
(* the call.                                                               *)
(***************************************************************************)
IsGetConnector(r) == r.op = "get_connector"

\* the stored params are the caller's connection_args mapping itself, whose
\* nested 'astra' mapping the constructor may have updated in place
ArgsAfterCall(r) == IF r.resolved THEN [r.args EXCEPT !.astra = r.astra_after] ELSE r.args

\* C1: once a key has a cached connector, every get_connector for that key,
\* whatever its connection_args, returns that same connector, constructs
\* nothing, opens nothing and leaves both dicts of the manager alone; and there
\* are never more connectors constructed than keys cached (one per key).
C1_CachedConnectorIsReturned ==
    /\ [](Len(connectors) = Cardinality(DOMAIN connections))
    /\ [][ (IsGetConnector(ret') /\ ret'.key \in DOMAIN connections) =>
             /\ ret'.result = connections[ret'.key]
             /\ ret'.error = ""
             /\ ~ret'.constructed
             /\ connectors' = connectors
             /\ sessions' = sessions
             /\ clusters' = clusters
             /\ connections' = connections
             /\ connection_params' = connection_params ]_vars

\* C1 witness: a cached key was asked for again with other arguments than the
\* stored ones, while a second key is cached too
C1_Witness ==
    /\ IsGetConnector(ret)
    /\ ~ret.constructed
    /\ ret.error = ""
    /\ ret.args # NoArgs
    /\ ret.args # connection_params[ret.key]
    /\ Cardinality(DOMAIN connections) = 2

\* C2: when the construction fails, the call raises the initialization error
\* and the connections dict is left as it was, with no entry for the key; a
\* later call for a key that failed before and is still uncached constructs
\* again, and when that construction succeeds the new connector is cached
\* under the key and returned.
C2_FailedConstructionIsNotCached ==
    /\ [][ (IsGetConnector(ret') /\ ret'.constructed /\ ret'.cause # "") =>
             /\ ret'.error = "could not be initialized"
             /\ ret'.result = 0
             /\ connections' = connections
             /\ ret'.key \notin DOMAIN connections'
             /\ connectors' = connectors ]_vars
    /\ [][ (IsGetConnector(ret') /\ ret'.key \in failed /\ ret'.key \notin DOMAIN connections) =>
             /\ ret'.constructed
             /\ ret'.cause = "" =>
                  /\ ret'.error = ""
                  /\ ret'.result = Len(connectors) + 1
                  /\ Len(connectors') = Len(connectors) + 1
                  /\ connections' = Put(connections, ret'.key, ret'.result) ]_vars

\* C2 witness: a key whose construction failed earlier has been constructed by
\* the call just made, and is cached
C2_Witness ==
    /\ IsGetConnector(ret)
    /\ ret.key \in failed
    /\ ret.constructed
    /\ ret.error = ""
    /\ ret.key \in DOMAIN connections
    /\ connections[ret.key] = ret.result

\* C3: get_connector with no connection_args for a key with neither a cached
\* connector nor stored params raises the 'not configured' error, constructs no
\* connector, makes no request, opens no session and changes neither dict.
C3_NotConfigured ==
    [][ (/\ IsGetConnector(ret')
         /\ ret'.args = NoArgs
         /\ ret'.key \notin DOMAIN connections
         /\ ret'.key \notin DOMAIN connection_params) =>
          /\ ret'.error = "not configured"
          /\ ret'.result = 0
          /\ ~ret'.constructed
          /\ ret'.calls = <<>>
          /\ ret'.opened = {}
          /\ clusters' = clusters
          /\ sessions' = sessions
          /\ files' = files
          /\ connections' = connections
          /\ connection_params' = connection_params ]_vars

\* C3 witness: the call just made was refused as not configured, for a key the
\* environment could have seeded but did not
C3_Witness ==
    /\ IsGetConnector(ret)
    /\ ret.error = "not configured"
    /\ ret.key = "env_astra"
    /\ ret.args = NoArgs
    /\ "app" \in DOMAIN connections

\* C4: get_connector with connection_args for a key with neither a cached
\* connector nor stored params stores that mapping as the params of the key
\* and, in the same call, constructs a connector from exactly those arguments;
\* the connector so built is cached under the key and returned (a construction
\* that raises is the case of C2: the params stay stored, nothing is cached).
C4_FirstUseStoresAndBuilds ==
    [][ (/\ IsGetConnector(ret')
         /\ ret'.args # NoArgs
         /\ ret'.key \notin DOMAIN connections
         /\ ret'.key \notin DOMAIN connection_params) =>
          /\ ret'.key \in DOMAIN connection_params'
          /\ connection_params'[ret'.key] = ArgsAfterCall(ret')
          /\ \A k \in DOMAIN connection_params : connection_params'[k] = connection_params[k]
          /\ ret'.constructed
          /\ ret'.built_from = ret'.args
          /\ ret'.cause = "" =>
               /\ ret'.error = ""
               /\ ret'.result = Len(connectors) + 1
               /\ Len(connectors') = Len(connectors) + 1
               /\ connections' = Put(connections, ret'.key, ret'.result)
          /\ ret'.cause # "" => ret'.error = "could not be initialized" ]_vars

\* C4 witness: a key unknown to the environment was first used with cloud-mode
\* arguments and the connector built from them is cached
C4_Witness ==
    /\ IsGetConnector(ret)
    /\ ret.key = "app"
    /\ ret.constructed
    /\ ret.built_from = ret.args
    /\ IsAstra(ret.args)
    /\ ret.error = ""
    /\ connections["app"] = ret.result
    /\ connection_params["app"] = ArgsAfterCall(ret)

(***************************************************************************)
(* Properties of resolve, checked under SpecBundle.  A step is one         *)
(* construction of a cloud-mode connector, which calls resolve once.       *)
(***************************************************************************)
\* the call resolved a bundle for arguments r.args.astra
Resolved(r) == r.op = "CassandraConnector" /\ r.resolved

\* the cache path resolve computed, once it got past its argument checks
CachePath(r) == ScbPath(r.astra_after)

Posts(calls) == {i \in 1..Len(calls) : calls[i].method = "POST"}
Gets(calls) == {i \in 1..Len(calls) : calls[i].method = "GET"}

\* C5: with a non-empty explicit bundle path in the arguments, resolve returns
\* exactly that path, makes no request, writes no file, creates no directory
\* and leaves its arguments alone, whatever the other fields are and whatever
\* the cache holds (a stale or missing cache file changes nothing).
C5_ExplicitBundlePath ==
    [][ (Resolved(ret') /\ Truthy(ret'.args.astra.scb)) =>
          /\ ret'.resolve_err = ""
          /\ ret'.path = ret'.args.astra.scb
          /\ ret'.calls = <<>>
          /\ files' = files
          /\ scb_dir' = scb_dir
          /\ ret'.astra_after = ret'.args.astra ]_vars

\* C5 witness: the explicit path was returned although the arguments also name
\* an endpoint whose cached bundle is stale
C5_Witness ==
    /\ Resolved(ret)
    /\ ret.path = BundleFile
    /\ ret.args.astra.endpoint = Endpoint
    /\ ret.files_before = OldFiles
    /\ files = OldFiles
    /\ now - OldFiles[ScbPath(Astra(Absent, DatabaseID, <<"f">>, Absent))].mtime > StaleSeconds

\* C6: without an explicit bundle path, when the cache file exists and is older
\* than 360 days, resolve makes exactly one metadata request and at most one
\* download, and when it returns it has made exactly one download and the
\* cache file holds the downloaded content with the current time; when the
\* cache file exists and is not older than 360 days, resolve makes no request,
\* leaves the files as they are and returns the cache path.
C6_StaleBundleIsDownloadedOnce ==
    [][ (Resolved(ret') /\ ~Truthy(ret'.args.astra.scb) /\ CachePath(ret') \in DOMAIN files) =>
          /\ now - files[CachePath(ret')].mtime > 360 * 24 * 60 * 60 =>
               /\ Cardinality(Posts(ret'.calls)) = 1
               /\ Cardinality(Gets(ret'.calls)) <= 1
               /\ ret'.calls[1].method = "POST"
               /\ ret'.resolve_err = "" =>
                    /\ Len(ret'.calls) = 2
                    /\ ret'.calls[2].method = "GET"
                    /\ \E i \in 1..Len(ret'.net.data) :
                          ret'.calls[2].target = ret'.net.data[i].downloadURL
                    /\ ret'.path = CachePath(ret')
                    /\ files' = WriteFile(files, CachePath(ret'),
                                          Content(ret'.calls[2].target), now)
          /\ now - files[CachePath(ret')].mtime <= 360 * 24 * 60 * 60 =>
               /\ ret'.calls = <<>>
               /\ files' = files
               /\ ret'.resolve_err = ""
               /\ ret'.path = CachePath(ret') ]_vars

\* C6 witness: a cache file older than 360 days has just been downloaded again
C6_Witness ==
    /\ Resolved(ret)
    /\ ret.resolve_err = ""
    /\ CachePath(ret) \in DOMAIN ret.files_before
    /\ now - ret.files_before[CachePath(ret)].mtime > StaleSeconds
    /\ Len(ret.calls) = 2
    /\ files[CachePath(ret)].mtime = now
    /\ files[CachePath(ret)].mtime # ret.files_before[CachePath(ret)].mtime
    /\ files[CachePath(ret)].content = Content(ret.calls[2].target)

IsSessionWith(r, new, replace) ==
    /\ r.op \in {"session()", "session.fget"}
    /\ r.new = new
    /\ r.replace = replace

\* C8: session(replace=true) on a connector shuts the primary session down,
\* connects a new session, installs it as the primary session and returns it
\* (a connect that raises aside); and a read of session returns the primary
\* session, so after a replace the new one.
C8_ReplaceInstallsNewSession ==
    /\ [][ (IsSessionWith(ret', FALSE, TRUE) /\ ret'.error # "connect") =>
             /\ ret'.error = ""
             /\ ~sessions'[connectors[ret'.handle].session].open
             /\ ret'.result = Len(sessions) + 1
             /\ sessions'[ret'.result].open
             /\ connectors'[ret'.handle].session = ret'.result ]_vars
    /\ [][ ret'.op = "session" => ret'.result = connectors[ret'.handle].session ]_vars

\* C9: when the accessor runs with new and replace both true, new wins: a
\* further session is connected and returned, the primary session is not shut
\* down and stays the primary session of the connector.
C9_NewTakesPrecedence ==
    [][ (ret'.op = "session.fget" /\ ret'.new /\ ret'.replace /\ ret'.error # "connect") =>
          /\ ret'.error = ""
          /\ ret'.result = Len(sessions) + 1
          /\ sessions'[ret'.result].open
          /\ ret'.closed = {}
          /\ \A i \in 1..Len(sessions) : sessions'[i] = sessions[i]
          /\ connectors' = connectors ]_vars

\* C10: session(new=true, replace=false) connects and returns a further
\* session (a connect that raises aside) and leaves the connector as it was:
\* no session is shut down, the primary session stays, and the session
\* returned is not the one the connector holds.
C10_NewSessionLeavesConnector ==
    [][ (IsSessionWith(ret', TRUE, FALSE) /\ ret'.error # "connect") =>
          /\ ret'.error = ""
          /\ ret'.result = Len(sessions) + 1
          /\ Len(sessions') = Len(sessions) + 1
          /\ sessions'[ret'.result].open
          /\ ret'.closed = {}
          /\ \A i \in 1..Len(sessions) : sessions'[i] = sessions[i]
          /\ connectors' = connectors
          /\ connectors'[ret'.handle].session # ret'.result ]_vars

\* What the body of the accessor does once it runs with the flags (the getter
\* function applied to them): replace alone replaces the primary session, new
\* alone leaves the connector as it was.
SessionBodyReplaces ==
    [][ (ret'.op = "session.fget" /\ ret'.replace /\ ret'.error = "") =>
          /\ ~sessions'[connectors[ret'.handle].session].open
          /\ ret'.result = Len(sessions) + 1
          /\ sessions'[ret'.result].open
          /\ connectors'[ret'.handle].session = ret'.result ]_vars

SessionBodyNew ==
    [][ (ret'.op = "session.fget" /\ ret'.new /\ ~ret'.replace /\ ret'.error = "") =>
          /\ ret'.result = Len(sessions) + 1
          /\ sessions'[ret'.result].open
          /\ \A i \in 1..Len(sessions) : sessions'[i] = sessions[i]
          /\ connectors' = connectors ]_vars

(***************************************************************************)
(* Properties of resolve's reading of its arguments, checked under         *)
(* SpecIdentity.                                                           *)
(***************************************************************************)
\* the call resolved a bundle from an endpoint: no explicit bundle path
FromEndpoint(r) ==
    /\ Resolved(r)
    /\ ~Truthy(r.args.astra.scb)
    /\ Truthy(r.args.astra.endpoint)

\* C11: when resolve reads an endpoint, the host without the provider suffix
\* is split on '-'; the datacenterID in effect is the caller's own when that
\* is non-empty and else the first five segments joined by '-', the
\* regionName in effect is the caller's own when non-empty and else the
\* remaining segments joined by '-'.  The values in effect are the ones left
\* in the arguments and the ones the metadata request and the cache path are
\* made of.  Host a-b-c-d-e-f gives a-b-c-d-e and f; host a-b-c-d-e-us-east1
\* gives a-b-c-d-e and us-east1.
C11_EndpointIdentity ==
    [][ FromEndpoint(ret') =>
          \A a \in {ret'.args.astra} :
          \A segments \in {Split(Split(Netloc(a.endpoint), AstraSuffix)[1], "-")} :
          \A datacenterID \in
                {IF Truthy(a.datacenterID) THEN a.datacenterID
                 ELSE Join(SubSeq(segments, 1, Min(5, Len(segments))), "-")} :
          \A regionName \in
                {IF Truthy(a.regionName) THEN a.regionName
                 ELSE Join(SubSeq(segments, Min(5, Len(segments)) + 1, Len(segments)), "-")} :
              /\ ret'.astra_after.datacenterID = datacenterID
              /\ ret'.astra_after.regionName = regionName
              /\ ret'.calls # <<>> => ret'.calls[1] = Request("POST", datacenterID)
              /\ ret'.resolve_err = "" => ret'.path = ScbPath(Astra(a.endpoint, datacenterID,
                                                                   regionName, a.scb))
              /\ (a.endpoint = Endpoint /\ ~Truthy(a.datacenterID)) =>
                    datacenterID = <<"a", "-", "b", "-", "c", "-", "d", "-", "e">>
              /\ (a.endpoint = Endpoint /\ ~Truthy(a.regionName)) => regionName = <<"f">>
              /\ (a.endpoint = RegionEndpoint /\ ~Truthy(a.regionName)) =>
                    regionName = <<"us", "-", "east1">> ]_vars

\* C11 witness: a bundle was resolved from an endpoint whose host has the
\* region us-east1 and from the caller's own regionName f: the datacenterID is
\* the derived one, the regionName the caller's
C11_Witness ==
    /\ FromEndpoint(ret)
    /\ ret.args.astra.endpoint = RegionEndpoint
    /\ ret.args.astra.datacenterID = Absent
    /\ ret.args.astra.regionName = <<"f">>
    /\ ret.resolve_err = ""
    /\ ret.astra_after.datacenterID = DatabaseID
    /\ ret.astra_after.regionName = <<"f">>
    /\ ret.calls[1] = Request("POST", DatabaseID)
    /\ ret.path \in DOMAIN files

\* C12: when the arguments have no non-empty bundle path, no non-empty
\* endpoint and no non-empty datacenterID (each missing, None or ''), resolve
\* raises the configuration error; no request has been made, the cache
\* directory is not created, no file is created or written, the arguments are
\* left as they were, and no cluster or session is made.
C12_MissingIdentity ==
    [][ (/\ Resolved(ret')
         /\ ~Truthy(ret'.args.astra.scb)
         /\ ~Truthy(ret'.args.astra.endpoint)
         /\ ~Truthy(ret'.args.astra.datacenterID)) =>
          /\ ret'.resolve_err = "config"
          /\ ret'.error = "config"
          /\ ret'.path = <<>>
          /\ ret'.calls = <<>>
          /\ scb_dir' = scb_dir
          /\ files' = files
          /\ ret'.astra_after = ret'.args.astra
          /\ ret'.opened = {}
          /\ clusters' = clusters
          /\ connectors' = connectors ]_vars

\* C12 witness: arguments with a regionName and a token only were refused
\* while the cache directory did not exist, and it still does not
C12_Witness ==
    /\ Resolved(ret)
    /\ ret.resolve_err = "config"
    /\ ret.args.astra.regionName = <<"f">>
    /\ ret.args.astra.datacenterID = <<>>
    /\ ret.calls = <<>>
    /\ ~scb_dir
    /\ files = EmptyDict

(***************************************************************************)
(* The write of the bundle, checked under SpecBundle.                      *)
(***************************************************************************)
\* the bodies a download can have
CompleteBundles == {Content(AllBundles[i].downloadURL) : i \in 1..Len(AllBundles)}

\* C13: the bundle is written atomically: whenever resolve has returned the
\* cache path, the file at that path exists and holds a complete downloaded
\* bundle, also when an earlier write of that file failed part-way.
C13_ReturnedBundleIsComplete ==
    (/\ Resolved(ret)
     /\ ~Truthy(ret.args.astra.scb)
     /\ ret.resolve_err = "") =>
        /\ ret.path = CachePath(ret)
        /\ ret.path \in DOMAIN files
        /\ files[ret.path].content \in CompleteBundles

(***************************************************************************)
(* Ownership of the connectors a manager caches, checked under Spec.       *)
(***************************************************************************)
\* C14: a connector is never shared across keys: any two distinct keys with a
\* cached connector have distinct CassandraConnector instances, whose Cluster
\* objects are distinct and whose primary Session objects are distinct, also
\* when the params stored for the two keys are equal.
C14_ConnectorsAreNotShared ==
    \A k1 \in DOMAIN connections, k2 \in DOMAIN connections :
        k1 # k2 =>
            /\ connections[k1] \in 1..Len(connectors)
            /\ connections[k2] \in 1..Len(connectors)
            /\ connections[k1] # connections[k2]
            /\ connectors[connections[k1]].cluster # connectors[connections[k2]].cluster
            /\ connectors[connections[k1]].session # connectors[connections[k2]].session

\* C14 witness: two keys are cached whose stored params are equal, the second
\* of them constructed by the call just made
C14_Witness ==
    /\ IsGetConnector(ret)
    /\ ret.constructed
    /\ ret.error = ""
    /\ \E k \in DOMAIN connections :
          /\ k # ret.key
          /\ connection_params[k] = connection_params[ret.key]
          /\ connections[k] # connections[ret.key]

(***************************************************************************)
(* get_connector called by threads with no lock, checked under SpecThreads.*)
(***************************************************************************)
\* the connectors no key of the cache refers to
Uncached == {h \in 1..Len(connectors) : \A k \in DOMAIN connections : connections[k] # h}

\* C15: nothing in get_connector keeps two threads apart.  A thread that has
\* constructed a connector assigns it to its key whatever the cache holds for
\* the key by then, so a connector cached by another thread in the meantime
\* is overwritten; no step of get_connector shuts a session down, so the
\* session of an overwritten connector stays open; and a thread returns what
\* the cache holds for its key at the time it returns.  (That the race is
\* reachable is the witness below.)
C15_UnlockedGetConnector ==
    /\ [][ \A t \in Threads :
             (threads[t].pc = "assign" /\ threads'[t].pc = "return") =>
                /\ connections' = Put(connections, threads[t].key, threads[t].h)
                /\ threads[t].key \in DOMAIN connections =>
                      connections[threads[t].key] \in Uncached' ]_vars
    /\ [][ /\ Len(sessions') >= Len(sessions)
           /\ \A i \in 1..Len(sessions) : sessions'[i] = sessions[i] ]_vars
    /\ [][ \A t \in Threads :
             (threads[t].pc = "return" /\ threads'[t].pc = "done") =>
                threads'[t].result = connections[threads[t].key] ]_vars

\* C15 witness: both threads called get_connector for the same key, which had
\* stored params before either call stored anything (neither passed
\* arguments), both constructed a connector and returned, each a different
\* one; the cache holds one of the two, the other is in no entry of the cache
\* and its session is open
C15_Witness ==
    /\ threads["t1"].pc = "done"
    /\ threads["t2"].pc = "done"
    /\ threads["t1"].key = threads["t2"].key
    /\ threads["t1"].args = NoArgs
    /\ threads["t2"].args = NoArgs
    /\ threads["t1"].h # 0
    /\ threads["t2"].h # 0
    /\ threads["t1"].h # threads["t2"].h
    /\ threads["t1"].result = threads["t1"].h
    /\ threads["t2"].result = threads["t2"].h
    /\ Len(connectors) = 2
    /\ connections[threads["t1"].key] = threads["t2"].h
    /\ threads["t1"].h \in Uncached
    /\ sessions[connectors[threads["t1"].h].session].open

(***************************************************************************)
(* The stored params, checked under Spec.                                  *)
(***************************************************************************)
\* C16: the params stored for a key are write-once: a get_connector call,
\* whatever arguments it passes and whether or not it constructs a connector
\* and the construction succeeds, leaves the params of every key that had
\* params before the call exactly as they were, the nested 'astra' mapping
\* included.
C16_StoredParamsAreWriteOnce ==
    [][ IsGetConnector(ret') =>
          \A k \in DOMAIN connection_params :
              /\ k \in DOMAIN connection_params'
              /\ connection_params'[k] = connection_params[k] ]_vars

\* What does hold: a call never replaces stored params by its arguments; the
\* params of a key change only in the nested 'astra' mapping, and only by the
\* datacenterID and regionName resolve writes into it.
StoredParamsKeepTheirFields ==
    [][ IsGetConnector(ret') =>
          \A k \in DOMAIN connection_params :
              /\ k \in DOMAIN connection_params'
              /\ connection_params'[k].authProviderClass = connection_params[k].authProviderClass
              /\ connection_params'[k].contact_points = connection_params[k].contact_points
              /\ \A f \in AstraFields \ {"datacenterID", "regionName"} :
                    connection_params'[k].astra[f] = connection_params[k].astra[f]
              /\ connection_params'[k] # connection_params[k] =>
                    /\ k = ret'.key
                    /\ ret'.resolved
                    /\ Truthy(connection_params[k].astra.endpoint)
                    /\ connection_params'[k].astra = WithEndpointIds(connection_params[k].astra) ]_vars

(***************************************************************************)
(* Failed requests, checked under SpecBundle.                              *)
(***************************************************************************)
\* the metadata request of the call, or its download request, was made and
\* answered with a non-success status
RequestFailed(r) ==
    /\ Resolved(r)
    /\ \/ r.net.post = "fail" /\ Len(r.calls) = 1 /\ r.calls[1].method = "POST"
       \/ r.net.get = "fail" /\ Len(r.calls) = 2 /\ r.calls[2].method = "GET"

\* C17: when the metadata request or the download request is answered with a
\* non-success status, resolve raises the HTTP error, which leaves the
\* constructor; the cache is exactly as it was, the file neither created nor
\* truncated nor touched, so the file is still missing or stale; and a resolve
\* that finds the file missing or stale always makes the metadata request
\* again.
C17_FailedRequestLeavesCache ==
    /\ [][ RequestFailed(ret') =>
             /\ ret'.resolve_err = "http"
             /\ ret'.error = "http"
             /\ ret'.path = <<>>
             /\ files' = files
             /\ NeedsDownload(files, CachePath(ret'), now)
             /\ NeedsDownload(files', CachePath(ret'), now')
             /\ ret'.opened = {}
             /\ connectors' = connectors ]_vars
    /\ [][ (/\ Resolved(ret')
            /\ ~Truthy(ret'.args.astra.scb)
            /\ ret'.resolve_err # "config"
            /\ NeedsDownload(files, CachePath(ret'), now)) =>
             /\ ret'.calls # <<>>
             /\ ret'.calls[1] = Request("POST", ret'.astra_after.datacenterID) ]_vars

\* C17 witness: the download of a stale bundle was refused; the stale file is
\* there as it was, still stale
C17_Witness ==
    /\ RequestFailed(ret)
    /\ ret.net.get = "fail"
    /\ ret.resolve_err = "http"
    /\ ret.files_before = OldFiles
    /\ files = OldFiles
    /\ now - files[CachePath(ret)].mtime > StaleSeconds

(***************************************************************************)
(* stream_data, checked under SpecStream.                                  *)
(***************************************************************************)
\* the statement of the loop body just run raised
IterationFailed ==
    /\ stream.pc \in {"fetch", "format", "send"}
    /\ stream'.pc # stream.pc
    /\ stream'.last = "error"

\* C18: an error raised by get_data, format_data or producer.send is logged
\* and the loop goes on with its test; no exception leaves stream_data; the
\* loop ends only when the clock is past curr_time + 60 and no iteration
\* starts once it is; a producer that cannot be created ends stream_data with
\* nothing sent; and, the clock advancing and every statement returning,
\* stream_data ends.
C18_StreamData ==
    /\ [][ IterationFailed =>
             /\ stream'.pc = "loop"
             /\ stream'.caught
             /\ ~stream'.failed_outer
             /\ stream'.sent = stream.sent ]_vars
    /\ [](~stream.raised)
    /\ [][ (stream.pc = "loop" /\ stream'.pc = "fetch") =>
             now <= stream.curr_time + 60 ]_vars
    /\ [][ (stream.pc = "loop" /\ stream'.pc = "done") =>
             now > stream.curr_time + 60 ]_vars
    /\ [][ (stream.pc # "done" /\ stream'.pc = "done") =>
             stream.pc \in {"loop", "producer"} ]_vars
    /\ [][ (stream.pc = "producer" /\ stream'.last = "error") =>
             /\ stream'.pc = "done"
             /\ stream'.failed_outer
             /\ ~stream'.sent ]_vars
    /\ []((stream.pc = "done" /\ stream.failed_outer) => ~stream.sent /\ ~stream.caught)
    /\ [][ stream.pc = "done" => stream' = stream ]_vars
    /\ <>(stream.pc = "done")

\* C18 witness: stream_data has ended past its deadline, after an iteration
\* whose error was logged and an iteration that sent its message
C18_Witness ==
    /\ stream.pc = "done"
    /\ stream.caught
    /\ stream.sent
    /\ ~stream.failed_outer
    /\ ~stream.raised
    /\ now > stream.curr_time + 60

(***************************************************************************)
(* The primary session, checked under SpecSession.                         *)
(***************************************************************************)
\* C19: the primary session of every connector constructed is a session that
\* is open, whatever calls of the accessor were made, a replace whose connect
\* raised included.
C19_PrimarySessionIsOpen ==
    \A h \in 1..Len(connectors) :
        /\ connectors[h].session \in 1..Len(sessions)
        /\ sessions[connectors[h].session].open

\* What does hold: the primary session is always a session of the
\* connector's own cluster.
PrimarySessionIsOwn ==
    \A h \in 1..Len(connectors) :
        /\ connectors[h].session \in 1..Len(sessions)
        /\ sessions[connectors[h].session].cluster = connectors[h].cluster

(***************************************************************************)
(* The datacenterID of the requests, checked under SpecIdentity.           *)
(***************************************************************************)
\* C20: resolve never works with an empty datacenterID: every metadata
\* request names a non-empty datacenterID, and when the arguments give none
\* and none can be parsed from the endpoint, resolve raises the configuration
\* error, with no request made and no cache path computed or written.
C20_DatacenterIDIsNeverEmpty ==
    [][ (Resolved(ret') /\ ~Truthy(ret'.args.astra.scb)) =>
          /\ \A i \in Posts(ret'.calls) : Truthy(ret'.calls[i].target)
          /\ ~Truthy(ret'.astra_after.datacenterID) =>
                /\ ret'.resolve_err = "config"
                /\ ret'.calls = <<>>
                /\ ret'.path = <<>>
                /\ files' = files
                /\ scb_dir' = scb_dir ]_vars

====
